---- MODULE Spec2Model ----
(***************************************************************************)
(* CSV Data Manager: the CSV parser (src/src/lib/csv-parser.ts), the table *)
(* engine (src/src/components/data-table.tsx) and the page that owns the   *)
(* dataset slots (src/src/app/page.tsx).                                   *)
(*                                                                         *)
(* A JavaScript string is modelled as the sequence of its UTF-16 code      *)
(* units, each written as a one-character TLA+ string: "a,b" is            *)
(* <<"a", ",", "b">> and the empty string is << >>.                        *)
(***************************************************************************)
EXTENDS Integers, Sequences, FiniteSets, TLC

VARIABLES
  csvText,      \* the text handed to the parser
  parsedLine,   \* Some(parseCSVLine(csvText)) once the tokenizer has run, else None
  parsed,       \* Some(parseCSV(csvText)) once the parser has run, else None
  datasetSlots, \* Home: the state datasetSlots, slot id -> DatasetSlot
  tables,       \* slot id -> Some(state of the slot's mounted DataTable), or None
  reads,        \* the file.text() reads in flight
  budget        \* what a run may still do: files to choose, edits to save, deletes to confirm

parserVars == <<csvText, parsedLine, parsed>>
pageVars == <<datasetSlots, tables, reads, budget>>
vars == <<csvText, parsedLine, parsed, datasetSlots, tables, reads, budget>>

\* An optional value (null, or a value): the empty or the one-element sequence.
None == << >>
Some(x) == <<x>>
IsSome(o) == Len(o) = 1
Get(o) == o[1]

-----------------------------------------------------------------------------
(* JavaScript string primitives used by the parser and the table.          *)

DQ == "\""
COMMA == ","
LF == "\n"
CR == "\r"
SP == " "

\* String.prototype.trim strips white space and line terminators.
WhiteSpace == {SP, "\t", LF, CR}

Min(a, b) == IF a < b THEN a ELSE b
Max(a, b) == IF a > b THEN a ELSE b

RECURSIVE trimStart(_)
trimStart(s) ==
  IF s # << >> /\ Head(s) \in WhiteSpace THEN trimStart(Tail(s)) ELSE s

RECURSIVE trimEnd(_)
trimEnd(s) ==
  IF s # << >> /\ s[Len(s)] \in WhiteSpace
  THEN trimEnd(SubSeq(s, 1, Len(s) - 1))
  ELSE s

trim(s) == trimEnd(trimStart(s))

startsWith(s, c) == s # << >> /\ s[1] = c
endsWith(s, c) == s # << >> /\ s[Len(s)] = c

\* String.prototype.substring(start, end), 0-based, end exclusive: both
\* arguments are clamped to [0, length] and swapped when start > end.
substring(s, start, end) ==
  LET a == Max(0, Min(start, Len(s)))
      b == Max(0, Min(end, Len(s)))
  IN  SubSeq(s, Min(a, b) + 1, Max(a, b))

\* s.replace(/""/g, '"'): every non-overlapping pair of quotes, left to right.
RECURSIVE replaceQuotePairs(_)
replaceQuotePairs(s) ==
  IF Len(s) >= 2 /\ s[1] = DQ /\ s[2] = DQ
  THEN <<DQ>> \o replaceQuotePairs(SubSeq(s, 3, Len(s)))
  ELSE IF s = << >> THEN << >>
  ELSE <<s[1]>> \o replaceQuotePairs(Tail(s))

\* Array.prototype.includes on an array of strings.
includes(arr, x) == \E i \in 1..Len(arr) : arr[i] = x

\* Number to decimal string, as a template literal formats `${count}`.
DigitChars == <<"0", "1", "2", "3", "4", "5", "6", "7", "8", "9">>

RECURSIVE numberToString(_)
numberToString(n) ==
  IF n < 10 THEN <<DigitChars[n + 1]>>
  ELSE numberToString(n \div 10) \o <<DigitChars[(n % 10) + 1]>>

-----------------------------------------------------------------------------
(* parseCSVLine: one left-to-right scan, then the per-field clean-up.      *)

\* A tokenizer that forgets the quote state when it meets a comma.
RECURSIVE scanLineEveryComma(_, _, _, _, _)
scanLineEveryComma(line, i, values, currentVal, inQuotes) ==
  IF i > Len(line) THEN Append(values, currentVal)
  ELSE LET char == line[i] IN
    IF char = DQ
    THEN IF inQuotes /\ i + 1 <= Len(line) /\ line[i + 1] = DQ
         THEN scanLineEveryComma(line, i + 2, values, Append(currentVal, DQ), inQuotes)
         ELSE scanLineEveryComma(line, i + 1, values, currentVal, ~inQuotes)
    ELSE IF char = COMMA
         THEN scanLineEveryComma(line, i + 1, Append(values, currentVal), << >>, inQuotes)
         ELSE scanLineEveryComma(line, i + 1, values, Append(currentVal, char), inQuotes)

\* The for loop of parseCSVLine; i is the 1-based position of line[i-1].
RECURSIVE scanLine(_, _, _, _, _)
scanLine(line, i, values, currentVal, inQuotes) ==
  IF i > Len(line) THEN Append(values, currentVal)
  ELSE LET char == line[i] IN
    IF char = DQ
    THEN IF inQuotes /\ i + 1 <= Len(line) /\ line[i + 1] = DQ
         THEN scanLine(line, i + 2, values, Append(currentVal, DQ), inQuotes)
         ELSE scanLine(line, i + 1, values, currentVal, ~inQuotes)
    ELSE IF char = COMMA /\ ~inQuotes
         THEN scanLine(line, i + 1, Append(values, currentVal), << >>, inQuotes)
         ELSE scanLine(line, i + 1, values, Append(currentVal, char), inQuotes)

\* The callback of values.map at the end of parseCSVLine.
cleanValue(val) ==
  IF startsWith(val, DQ) /\ endsWith(val, DQ)
  THEN replaceQuotePairs(substring(val, 1, Len(val) - 1))
  ELSE trim(val)

\* A tokenizer that gives up on a line whose last quote is left open: it
\* returns no field.
parseCSVLineStrict(line) ==
  LET values == scanLine(line, 1, << >>, << >>, FALSE)
  IN  IF Cardinality({k \in 1..Len(line) : line[k] = DQ}) % 2 = 1 THEN << >>
      ELSE [k \in 1..Len(values) |-> cleanValue(values[k])]

parseCSVLine(line) ==
  LET values == scanLine(line, 1, << >>, << >>, FALSE)
  IN  [k \in 1..Len(values) |-> cleanValue(values[k])]

-----------------------------------------------------------------------------
(* parseCSV.                                                               *)

\* A split at CRLF only.
RECURSIVE splitLinesAtCRLF(_, _, _, _)
splitLinesAtCRLF(text, i, current, lines) ==
  IF i > Len(text) THEN Append(lines, current)
  ELSE IF text[i] = CR /\ i + 1 <= Len(text) /\ text[i + 1] = LF
       THEN splitLinesAtCRLF(text, i + 2, << >>, Append(lines, current))
  ELSE splitLinesAtCRLF(text, i + 1, Append(current, text[i]), lines)

\* text.split(/\r\n|\n/): at each position CRLF is tried before LF; a CR that
\* is not followed by LF is an ordinary character.
RECURSIVE splitLines(_, _, _, _)
splitLines(text, i, current, lines) ==
  IF i > Len(text) THEN Append(lines, current)
  ELSE IF text[i] = CR /\ i + 1 <= Len(text) /\ text[i + 1] = LF
       THEN splitLines(text, i + 2, << >>, Append(lines, current))
  ELSE IF text[i] = LF
       THEN splitLines(text, i + 1, << >>, Append(lines, current))
  ELSE splitLines(text, i + 1, Append(current, text[i]), lines)

UnnamedColumn == <<"U", "n", "n", "a", "m", "e", "d", "C", "o", "l", "u", "m", "n">>

\* The while loop that renames one header; earlier is headers.slice(0, index),
\* the RAW headers before this one.
RECURSIVE renameHeader(_, _, _, _)
renameHeader(header, earlier, newHeader, count) ==
  IF includes(earlier, newHeader) \/ newHeader = << >>
  THEN renameHeader(header, earlier,
                    IF header = << >>
                    THEN UnnamedColumn \o numberToString(count)
                    ELSE header \o <<"_">> \o numberToString(count),
                    count + 1)
  ELSE newHeader

uniqueHeadersOf(headers) ==
  [index \in 1..Len(headers) |->
     renameHeader(headers[index], SubSeq(headers, 1, index - 1), headers[index], 1)]

\* The most iterations of the renaming loop that are followed for one header.
MaxIterations == 8

\* A loop whose candidate is always the first generated form.
RECURSIVE renameIterationsFirstFormOnly(_, _, _, _)
renameIterationsFirstFormOnly(header, earlier, newHeader, count) ==
  IF (includes(earlier, newHeader) \/ newHeader = << >>) /\ count <= MaxIterations
  THEN renameIterationsFirstFormOnly(header, earlier,
                                     IF header = << >>
                                     THEN UnnamedColumn \o numberToString(1)
                                     ELSE header \o <<"_">> \o numberToString(1),
                                     count + 1)
  ELSE count - 1

\* The number of times the body of the while loop runs for one header: count
\* starts at 1 and is incremented once per iteration, so it is count - 1 when
\* the condition fails. The loop is followed for MaxIterations iterations.
RECURSIVE renameIterations(_, _, _, _)
renameIterations(header, earlier, newHeader, count) ==
  IF (includes(earlier, newHeader) \/ newHeader = << >>) /\ count <= MaxIterations
  THEN renameIterations(header, earlier,
                        IF header = << >>
                        THEN UnnamedColumn \o numberToString(count)
                        ELSE header \o <<"_">> \o numberToString(count),
                        count + 1)
  ELSE count - 1

\* const headers = parseCSVLine(headerLine).map(h => h.trim()): the raw names
\* of the first line of the trimmed text.
trimmedHeaders(text) ==
  LET lines == splitLines(trim(text), 1, << >>, << >>) IN
  IF Len(lines) = 0 THEN << >>
  ELSE [k \in 1..Len(parseCSVLine(lines[1])) |-> trim(parseCSVLine(lines[1])[k])]

\* A row that gives each header the field after its position.
rowOfNextField(uniqueHeaders, values) ==
  [h \in {uniqueHeaders[k] : k \in 1..Len(uniqueHeaders)} |->
     LET last == CHOOSE k \in 1..Len(uniqueHeaders) :
                   /\ uniqueHeaders[k] = h
                   /\ \A m \in 1..Len(uniqueHeaders) : uniqueHeaders[m] = h => m <= k
     IN  IF last + 1 <= Len(values) THEN values[last + 1] ELSE << >>]

\* The row object built by uniqueHeaders.forEach: keys are the header names, a
\* later assignment to the same key overwrites an earlier one.
rowOf(uniqueHeaders, values) ==
  [h \in {uniqueHeaders[k] : k \in 1..Len(uniqueHeaders)} |->
     LET last == CHOOSE k \in 1..Len(uniqueHeaders) :
                   /\ uniqueHeaders[k] = h
                   /\ \A m \in 1..Len(uniqueHeaders) : uniqueHeaders[m] = h => m <= k
     IN  IF last <= Len(values) THEN values[last] ELSE << >>]

\* A loop that also skips the records whose fields are all empty.
RECURSIVE dataRowsSkippingEmptyFields(_, _, _)
dataRowsSkippingEmptyFields(lines, i, uniqueHeaders) ==
  IF i > Len(lines) THEN << >>
  ELSE IF \/ trim(lines[i]) = << >>
          \/ \A k \in 1..Len(parseCSVLine(lines[i])) : parseCSVLine(lines[i])[k] = << >>
       THEN dataRowsSkippingEmptyFields(lines, i + 1, uniqueHeaders)
  ELSE <<rowOf(uniqueHeaders, parseCSVLine(lines[i]))>>
         \o dataRowsSkippingEmptyFields(lines, i + 1, uniqueHeaders)

\* The for loop over lines[1..]: blank records are skipped.
RECURSIVE dataRows(_, _, _)
dataRows(lines, i, uniqueHeaders) ==
  IF i > Len(lines) THEN << >>
  ELSE IF trim(lines[i]) = << >> THEN dataRows(lines, i + 1, uniqueHeaders)
  ELSE <<rowOf(uniqueHeaders, parseCSVLine(lines[i]))>>
         \o dataRows(lines, i + 1, uniqueHeaders)

parseCSV(text) ==
  LET lines == splitLines(trim(text), 1, << >>, << >>) IN
  IF Len(lines) = 0 THEN [headers |-> << >>, data |-> << >>]
  ELSE LET headerLine == lines[1]
           headers == [k \in 1..Len(parseCSVLine(headerLine)) |->
                         trim(parseCSVLine(headerLine)[k])]
           uniqueHeaders == uniqueHeadersOf(headers)
       IN  [headers |-> uniqueHeaders, data |-> dataRows(lines, 2, uniqueHeaders)]

-----------------------------------------------------------------------------
(* Strings in the table: comparison (valA < valB) and search.              *)

UpperChars == <<"A", "B", "C", "D", "E", "F", "G", "H", "I", "J", "K", "L", "M",
                "N", "O", "P", "Q", "R", "S", "T", "U", "V", "W", "X", "Y", "Z">>
LowerChars == <<"a", "b", "c", "d", "e", "f", "g", "h", "i", "j", "k", "l", "m",
                "n", "o", "p", "q", "r", "s", "t", "u", "v", "w", "x", "y", "z">>

IndexIn(seq, c) == CHOOSE i \in 1..Len(seq) : seq[i] = c

\* The UTF-16 code units of the characters the model's texts use.
CodeUnits ==
  [c \in {DigitChars[i] : i \in 1..10} |-> 47 + IndexIn(DigitChars, c)]
    @@ [c \in {UpperChars[i] : i \in 1..26} |-> 64 + IndexIn(UpperChars, c)]
    @@ [c \in {LowerChars[i] : i \in 1..26} |-> 96 + IndexIn(LowerChars, c)]
    @@ ("\t" :> 9) @@ (LF :> 10) @@ (CR :> 13) @@ (SP :> 32) @@ (DQ :> 34)
    @@ (COMMA :> 44) @@ ("-" :> 45) @@ ("." :> 46) @@ ("_" :> 95)

charCode(c) == CodeUnits[c]

\* toLowerCase on one character.
LowerOf ==
  [c \in DOMAIN CodeUnits |->
     IF includes(UpperChars, c) THEN LowerChars[IndexIn(UpperChars, c)] ELSE c]

\* a < b on two strings: lexicographic on code units.
RECURSIVE lessThan(_, _)
lessThan(a, b) ==
  IF b = << >> THEN FALSE
  ELSE IF a = << >> THEN TRUE
  ELSE IF charCode(a[1]) < charCode(b[1]) THEN TRUE
  ELSE IF charCode(a[1]) > charCode(b[1]) THEN FALSE
  ELSE lessThan(Tail(a), Tail(b))

toLowerCase(s) == [i \in 1..Len(s) |-> LowerOf[s[i]]]

\* String.prototype.includes.
stringIncludes(s, t) ==
  \E i \in 0..(Len(s) - Len(t)) : SubSeq(s, i + 1, i + Len(t)) = t

-----------------------------------------------------------------------------
(* Home (the two-slot page): the slot update functions.                    *)
(* A row object is [ref, vals]: ref is the object's identity (what ===     *)
(* and indexOf compare), vals the mapping header -> value.                 *)

SlotIds == {0, 1}

initialSlots ==
  [id \in SlotIds |->
     [headers |-> << >>, data |-> << >>, fileName |-> None,
      isUploading |-> FALSE, uploadError |-> ""]]

handleSetSlotUploading(prevSlots, slotId, loading) ==
  [id \in DOMAIN prevSlots |->
     IF id = slotId THEN [prevSlots[id] EXCEPT !.isUploading = loading]
     ELSE prevSlots[id]]

\* A success handler that leaves the loading flag as it is.
handleUploadSuccessKeepingFlag(prevSlots, slotId, newHeaders, newData, fileName) ==
  [id \in DOMAIN prevSlots |->
     IF id = slotId
     THEN [prevSlots[id] EXCEPT !.headers = newHeaders, !.data = newData,
                                !.fileName = Some(fileName), !.uploadError = ""]
     ELSE prevSlots[id]]

handleUploadSuccess(prevSlots, slotId, newHeaders, newData, fileName) ==
  [id \in DOMAIN prevSlots |->
     IF id = slotId
     THEN [prevSlots[id] EXCEPT !.headers = newHeaders, !.data = newData,
                                !.fileName = Some(fileName), !.uploadError = "",
                                !.isUploading = FALSE]
     ELSE prevSlots[id]]

\* An error handler that resets every slot.
handleUploadErrorEverySlot(prevSlots, slotId, errorMessage) ==
  [id \in DOMAIN prevSlots |->
     [prevSlots[id] EXCEPT !.headers = << >>, !.data = << >>,
                           !.fileName = None, !.uploadError = errorMessage,
                           !.isUploading = FALSE]]

handleUploadError(prevSlots, slotId, errorMessage) ==
  [id \in DOMAIN prevSlots |->
     IF id = slotId
     THEN [prevSlots[id] EXCEPT !.headers = << >>, !.data = << >>,
                                !.fileName = None, !.uploadError = errorMessage,
                                !.isUploading = FALSE]
     ELSE prevSlots[id]]

\* An update by assignment to a copy (copy[rowIndex] = updatedRow): an index
\* at the end of the rows adds a row.
handleRowUpdateByAssignment(prevSlots, slotId, rowIndex, updatedRow) ==
  [id \in DOMAIN prevSlots |->
     IF id = slotId
     THEN [prevSlots[id] EXCEPT !.data =
             IF rowIndex >= Len(prevSlots[id].data)
             THEN Append(prevSlots[id].data, updatedRow)
             ELSE [i \in 1..Len(prevSlots[id].data) |->
                     IF i - 1 = rowIndex THEN updatedRow ELSE prevSlots[id].data[i]]]
     ELSE prevSlots[id]]

\* slot.data.map((row, index) => (index === rowIndex ? updatedRow : row))
handleRowUpdate(prevSlots, slotId, rowIndex, updatedRow) ==
  [id \in DOMAIN prevSlots |->
     IF id = slotId
     THEN [prevSlots[id] EXCEPT !.data =
             [i \in 1..Len(prevSlots[id].data) |->
                IF i - 1 = rowIndex THEN updatedRow ELSE prevSlots[id].data[i]]]
     ELSE prevSlots[id]]

\* A filter that drops every row holding the values of the row at rowIndex.
filterOutEqualRows(data, i, rowIndex) ==
  SelectSeq(data, LAMBDA row :
    ~(rowIndex + 1 \in 1..Len(data) /\ row.vals = data[rowIndex + 1].vals))

\* data.filter((_, index) => index !== rowIndex)
RECURSIVE filterOutIndex(_, _, _)
filterOutIndex(data, i, rowIndex) ==
  IF i > Len(data) THEN << >>
  ELSE (IF i - 1 # rowIndex THEN <<data[i]>> ELSE << >>)
         \o filterOutIndex(data, i + 1, rowIndex)

handleRowDelete(prevSlots, slotId, rowIndex) ==
  [id \in DOMAIN prevSlots |->
     IF id = slotId
     THEN [prevSlots[id] EXCEPT !.data = filterOutIndex(prevSlots[id].data, 1, rowIndex)]
     ELSE prevSlots[id]]

\* What the page renders for a slot.
uploaderShown(slot) == ~slot.isUploading /\ ~IsSome(slot.fileName)
fileBarShown(slot) == ~slot.isUploading /\ IsSome(slot.fileName)
tableShown(slot) == fileBarShown(slot) /\ Len(slot.headers) > 0

-----------------------------------------------------------------------------
(* DataTable: state, derived views, handlers.                              *)

ROWS_PER_PAGE == 10

\* The useState initial values of a DataTable mounted with a slot's props.
mountTable(slot) ==
  [headers |-> slot.headers, data |-> slot.data, sortConfig |-> None,
   currentPage |-> 1, editingRow |-> None, rowToDelete |-> None,
   searchTerm |-> << >>]

\* An effect that takes the new props and keeps the view.
propsEffectKeepingView(t, slot) ==
  [t EXCEPT !.headers = slot.headers, !.data = slot.data]

\* The useEffect on [initialHeaders, initialData].
propsEffect(t, slot) ==
  [t EXCEPT !.headers = slot.headers, !.data = slot.data, !.currentPage = 1,
            !.sortConfig = None, !.searchTerm = << >>]

\* The table of one slot after the page re-rendered: unmounted when the page
\* does not render it, mounted afresh when it was not there, and otherwise
\* kept, its effect run when the headers or data array was replaced.
renderTable(oldTable, newSlot, propsReplaced) ==
  IF ~tableShown(newSlot) THEN None
  ELSE IF ~IsSome(oldTable) THEN Some(mountTable(newSlot))
  ELSE IF propsReplaced THEN Some(propsEffect(Get(oldTable), newSlot))
  ELSE oldTable

\* Every slot's table after the page state became newSlots; replaced is the set
\* of slots whose headers or data array is a new array.
renderTables(oldTables, newSlots, replaced) ==
  [id \in DOMAIN newSlots |-> renderTable(oldTables[id], newSlots[id], id \in replaced)]

\* A match that lowercases the filter only.
rowMatchesCaseSensitive(row, lowercasedFilter) ==
  \E h \in DOMAIN row.vals : stringIncludes(row.vals[h], lowercasedFilter)

\* Object.values(row).some(value => String(value).toLowerCase().includes(filter))
rowMatches(row, lowercasedFilter) ==
  \E h \in DOMAIN row.vals : stringIncludes(toLowerCase(row.vals[h]), lowercasedFilter)

RECURSIVE filterRows(_, _)
filterRows(rows, lowercasedFilter) ==
  IF rows = << >> THEN << >>
  ELSE (IF rowMatches(Head(rows), lowercasedFilter) THEN <<Head(rows)>> ELSE << >>)
         \o filterRows(Tail(rows), lowercasedFilter)

filteredData(t) ==
  IF t.searchTerm = << >> THEN t.data
  ELSE filterRows(t.data, toLowerCase(t.searchTerm))

\* row[key]: the value, or undefined (None) when the row has no such key.
valueOf(row, key) == IF key \in DOMAIN row.vals THEN Some(row.vals[key]) ELSE None

\* valA < valB on two values that may be undefined: a comparison with
\* undefined is false.
lessThanValue(valA, valB) ==
  IsSome(valA) /\ IsSome(valB) /\ lessThan(Get(valA), Get(valB))

\* A comparator that orders ascending whatever the direction.
compareRowsIgnoringDirection(a, b, sortConfig) ==
  LET valA == valueOf(a, sortConfig.key)
      valB == valueOf(b, sortConfig.key)
  IN  IF lessThanValue(valA, valB) THEN -1
      ELSE IF lessThanValue(valB, valA) THEN 1
      ELSE 0

\* The comparator handed to sort.
compareRows(a, b, sortConfig) ==
  LET valA == valueOf(a, sortConfig.key)
      valB == valueOf(b, sortConfig.key)
  IN  IF lessThanValue(valA, valB)
      THEN (IF sortConfig.direction = "ascending" THEN -1 ELSE 1)
      ELSE IF lessThanValue(valB, valA)
      THEN (IF sortConfig.direction = "ascending" THEN 1 ELSE -1)
      ELSE 0

\* Array.prototype.sort is stable: x goes behind every element it does not
\* precede.
RECURSIVE insertSorted(_, _, _)
insertSorted(sorted, x, sortConfig) ==
  IF sorted = << >> THEN <<x>>
  ELSE IF compareRows(x, Head(sorted), sortConfig) < 0 THEN <<x>> \o sorted
  ELSE <<Head(sorted)>> \o insertSorted(Tail(sorted), x, sortConfig)

RECURSIVE stableSort(_, _)
stableSort(rows, sortConfig) ==
  IF rows = << >> THEN << >>
  ELSE insertSorted(stableSort(SubSeq(rows, 1, Len(rows) - 1), sortConfig),
                    rows[Len(rows)], sortConfig)

\* A sorted view made of copies of the rows ({...row}): new objects.
sortedDataOfCopies(t) ==
  LET copyOf(row) == [row EXCEPT !.ref = 0 - row.ref]
      rows == IF IsSome(t.sortConfig) THEN stableSort(filteredData(t), Get(t.sortConfig))
              ELSE filteredData(t)
  IN  [i \in 1..Len(rows) |-> copyOf(rows[i])]

sortedData(t) ==
  IF IsSome(t.sortConfig) THEN stableSort(filteredData(t), Get(t.sortConfig))
  ELSE filteredData(t)

\* Array.prototype.slice(start, end) with 0 <= start <= end.
slice(arr, start, end) == SubSeq(arr, start + 1, Min(end, Len(arr)))

paginatedData(t) ==
  LET startIndex == (t.currentPage - 1) * ROWS_PER_PAGE
  IN  slice(sortedData(t), startIndex, startIndex + ROWS_PER_PAGE)

\* Math.ceil(sortedData.length / ROWS_PER_PAGE)
totalPages(t) == (Len(sortedData(t)) + ROWS_PER_PAGE - 1) \div ROWS_PER_PAGE

\* An indexOf that compares the rows' values.
indexOfEqualValues(data, row) ==
  IF \E i \in 1..Len(data) : data[i].vals = row.vals
  THEN (CHOOSE i \in 1..Len(data) :
          /\ data[i].vals = row.vals
          /\ \A j \in 1..(i - 1) : data[j].vals # row.vals) - 1
  ELSE -1

\* Array.prototype.indexOf on row objects: strict equality is object identity.
\* 0-based, -1 when absent.
indexOf(data, row) ==
  IF \E i \in 1..Len(data) : data[i].ref = row.ref
  THEN (CHOOSE i \in 1..Len(data) :
          /\ data[i].ref = row.ref
          /\ \A j \in 1..(i - 1) : data[j].ref # row.ref) - 1
  ELSE -1

\* A requestSort that sorts the rows themselves instead of a copy.
requestSortSortingData(t, key) ==
  LET direction ==
        IF IsSome(t.sortConfig) /\ Get(t.sortConfig).key = key
           /\ Get(t.sortConfig).direction = "ascending"
        THEN "descending" ELSE "ascending"
      sortConfig == [key |-> key, direction |-> direction]
  IN  [t EXCEPT !.sortConfig = Some(sortConfig), !.currentPage = 1,
                !.data = stableSort(t.data, sortConfig)]

\* requestSort(key)
requestSort(t, key) ==
  LET direction ==
        IF IsSome(t.sortConfig) /\ Get(t.sortConfig).key = key
           /\ Get(t.sortConfig).direction = "ascending"
        THEN "descending" ELSE "ascending"
  IN  [t EXCEPT !.sortConfig = Some([key |-> key, direction |-> direction]),
                !.currentPage = 1]

\* handleEdit(rowIndexInPaginatedData)
handleEdit(t, rowIndexInPaginatedData) ==
  LET row == paginatedData(t)[rowIndexInPaginatedData + 1]
      originalIndex == indexOf(t.data, row)
  IN  IF originalIndex # -1
      THEN [t EXCEPT !.editingRow = Some([index |-> originalIndex, data |-> row])]
      ELSE t

\* handleDelete(rowIndexInPaginatedData)
handleDelete(t, rowIndexInPaginatedData) ==
  LET originalIndex == indexOf(t.data, paginatedData(t)[rowIndexInPaginatedData + 1])
  IN  IF originalIndex # -1 THEN [t EXCEPT !.rowToDelete = Some(originalIndex)]
      ELSE t

\* The table-local part of confirmDelete (the call of onRowDelete aside).
confirmDeleteLocal(t) ==
  LET paged ==
        IF /\ IsSome(t.rowToDelete)
           /\ t.currentPage > 1
           /\ Len(paginatedData(t)) = 1
           /\ Len(t.data) - 1 < (t.currentPage - 1) * ROWS_PER_PAGE + 1
        THEN [t EXCEPT !.currentPage = t.currentPage - 1]
        ELSE t
  IN  [paged EXCEPT !.rowToDelete = None]

\* A new object: an identity no live object of the slot has.
freshRef(live) == CHOOSE r \in 1..(Cardinality(live) + 1) : r \notin live

liveRefs(slot, table) ==
  {slot.data[i].ref : i \in 1..Len(slot.data)}
    \cup (IF IsSome(table)
          THEN {Get(table).data[i].ref : i \in 1..Len(Get(table).data)}
                 \cup (IF IsSome(Get(table).editingRow)
                       THEN {Get(Get(table).editingRow).data.ref} ELSE {})
          ELSE {})

\* The identities an open dialog of the table still holds.
pendingRefs(table) ==
  IF IsSome(table) /\ IsSome(Get(table).editingRow)
  THEN {Get(Get(table).editingRow).data.ref} ELSE {}

\* The row objects parseCSV returns: each a new object, the i-th identity
\* that no live object has.
newRows(data, live) ==
  [i \in 1..Len(data) |->
     [ref |-> CHOOSE r \in 1..(i + Cardinality(live)) :
                /\ r \notin live
                /\ Cardinality({q \in 1..r : q \notin live}) = i,
      vals |-> data[i]]]

-----------------------------------------------------------------------------
(* Inputs of the parser specification.                                     *)

MaxLineLen == 5
LineAlphabet == {"a", COMMA, DQ, SP}

RECURSIVE StringsUpTo(_, _)
StringsUpTo(alphabet, n) ==
  IF n = 0 THEN {<< >>}
  ELSE LET shorter == StringsUpTo(alphabet, n - 1)
       IN  shorter \cup {Append(s, c) : s \in {t \in shorter : Len(t) = n - 1}, c \in alphabet}

\* The tokenizer examples of the specification's testable properties.
ExampleLines ==
  { <<"a", COMMA, "b", COMMA, "c">>,
    <<DQ, "a", COMMA, "b", DQ, COMMA, "c">>,
    <<DQ, "a", DQ, DQ, "b", DQ, COMMA, "c">>,
    <<SP, "a", SP, COMMA, SP, "b", SP>>,
    <<DQ, SP, "a", SP, DQ, COMMA, SP, "b">> }

LineInputs == StringsUpTo(LineAlphabet, MaxLineLen) \cup ExampleLines

MaxHeaders == 4
Name == <<"N", "a", "m", "e">>
HeaderNames == {<< >>, Name, Name \o <<"_", "1">>, <<"I", "d">>}

RECURSIVE join(_, _)
join(fields, sep) ==
  IF fields = << >> THEN << >>
  ELSE IF Len(fields) = 1 THEN fields[1]
  ELSE fields[1] \o sep \o join(Tail(fields), sep)

RECURSIVE TuplesUpTo(_, _)
TuplesUpTo(S, n) ==
  IF n = 0 THEN {<< >>}
  ELSE LET shorter == TuplesUpTo(S, n - 1)
       IN  shorter \cup {Append(t, x) : t \in {u \in shorter : Len(u) = n - 1}, x \in S}

HeaderLineInputs ==
  {join(hs, <<COMMA>>) : hs \in TuplesUpTo(HeaderNames, MaxHeaders) \ {<< >>}}

\* Documents: a header line and up to MaxRecords records, each separator LF
\* or CRLF.
MaxRecords == 2
DocumentHeaderLines ==
  { <<"h">>, <<"h", COMMA, "k">>, <<COMMA>>,
    <<"h", COMMA, "h", COMMA, "h", "_", "1">> }
DocumentRecordLines ==
  { << >>, <<SP>>, <<COMMA>>, <<"x">>, <<"x", COMMA, "y">>, <<"x", COMMA, "y", COMMA, "z">>,
    <<SP, "x", SP, COMMA, DQ, "y", DQ>> }
\* The lines joined by the separators: seps[i] follows lines[i].
RECURSIVE joinLines(_, _)
joinLines(lines, seps) ==
  IF Len(lines) = 1 THEN lines[1]
  ELSE lines[1] \o seps[1] \o joinLines(Tail(lines), Tail(seps))

DocumentInputs ==
  {joinLines(<<h>> \o records, seps) :
     h \in DocumentHeaderLines,
     records \in TuplesUpTo(DocumentRecordLines, MaxRecords),
     seps \in [1..MaxRecords -> {<<LF>>, <<CR, LF>>}]}

\* Datasets to serialize: headers, and up to MaxRecords rows that give every
\* header a value.
DatasetHeaders == { << >>, << <<"h">> >>, << <<"h">>, <<"k">> >> }
DatasetValues == { << >>, <<"x">>, <<"x", SP>> }
Datasets ==
  UNION { {[headers |-> hs, data |-> rows] :
             rows \in TuplesUpTo([{hs[i] : i \in 1..Len(hs)} -> DatasetValues], MaxRecords)} :
          hs \in DatasetHeaders }

\* The serialization of a dataset: the comma-joined header line, then one
\* comma-joined line per row, the lines joined by LF.
serialize(dataset) ==
  LET lineOf(row) ==
        join([i \in 1..Len(dataset.headers) |-> row[dataset.headers[i]]], <<COMMA>>)
  IN  join(<<join(dataset.headers, <<COMMA>>)>>
             \o [j \in 1..Len(dataset.data) |-> lineOf(dataset.data[j])],
           <<LF>>)

SerializedInputs == {serialize(dataset) : dataset \in Datasets}

-----------------------------------------------------------------------------
(* Files, and the bounds of the page specification.                        *)

\* A File: its name, media type, whether name.toLowerCase().endsWith('.csv'),
\* its text, and whether file.text() rejects.
CsvFile(name, lines) ==
  [name |-> name, type |-> "text/csv", hasCsvExtension |-> TRUE,
   readFails |-> FALSE, text |-> join(lines, <<LF>>)]

\* n,t / 10,a / 2,b / 1,A
SmallFile ==
  CsvFile("small.csv",
          << <<"n", COMMA, "t">>, <<"1", "0", COMMA, "a">>,
             <<"2", COMMA, "b">>, <<"1", COMMA, "A">> >>)

\* The headers n,t,u and ROWS_PER_PAGE + 1 one-field records (t and u are
\* padded):
\* 1 10 2 2 3 4 5 6 7 8 8
PagedFile ==
  CsvFile("paged.csv",
          << <<"n", COMMA, "t", COMMA, "u">>, <<"1">>, <<"1", "0">>, <<"2">>, <<"2">>, <<"3">>,
             <<"4">>, <<"5">>, <<"6">>, <<"7">>, <<"8">>, <<"8">> >>)

\* A document with no records: whitespace only.
BlankFile == CsvFile("blank.csv", << <<SP>>, << >> >>)

\* A file that is neither of type text/csv nor named *.csv.
NotCsvFile ==
  [name |-> "notes.txt", type |-> "text/plain", hasCsvExtension |-> FALSE,
   readFails |-> FALSE, text |-> <<"n", LF, "1">>]

\* A CSV file whose file.text() rejects.
UnreadableFile ==
  [name |-> "unreadable.csv", type |-> "text/csv", hasCsvExtension |-> TRUE,
   readFails |-> TRUE, text |-> << >>]

EngineFiles == {SmallFile, PagedFile, BlankFile, NotCsvFile, UnreadableFile}
EngineSlots == {0}
SearchTerms == {<< >>, <<"A">>}
EditValues == {<<"2">>}

MaxFiles == 2       \* files chosen in a run that does not both edit and delete
MaxSaves == 1       \* edits saved in a run
MaxDeletes == 1     \* deletes confirmed in a run
MaxChanged == 1     \* fields changed in one edit
MaxInFlight == 2    \* file reads in flight at once
MaxViewPos == 0     \* the displayed rows whose buttons are used: 0..MaxViewPos

\* A run either edits and deletes rows of one file, or loads files one
\* after, or over, the other and either edits or deletes rows.
Budgets ==
  { [files |-> 1, saves |-> MaxSaves, deletes |-> MaxDeletes],
    [files |-> MaxFiles, saves |-> MaxSaves, deletes |-> 0],
    [files |-> MaxFiles, saves |-> 0, deletes |-> MaxDeletes] }

InvalidFileType == "Invalid file type. Please upload a CSV file."
NoHeadersFound == "CSV file seems to be empty or not formatted correctly (no headers found)."
FailedToParse == "Failed to parse CSV file. Please check its format and content."

\* file.type !== 'text/csv' && !file.name.toLowerCase().endsWith('.csv')
rejectedFileType(file) == file.type # "text/csv" /\ ~file.hasCsvExtension

removeAt(seq, i) == SubSeq(seq, 1, i - 1) \o SubSeq(seq, i + 1, Len(seq))

-----------------------------------------------------------------------------
(* The page specification: one action per handler.                         *)
(* A handler is enabled when the element it is bound to is rendered; the   *)
(* dialogs' own components (ui/dialog, ui/alert-dialog) are not part of    *)
(* the source, so nothing here keeps a handler from running while a dialog *)
(* is open. A state update of the page, the re-render and the table's      *)
(* effect that follow it are one step.                                     *)

PageInit ==
  /\ datasetSlots = initialSlots
  /\ tables = [id \in SlotIds |-> None]
  /\ reads = << >>

Init ==
  /\ csvText = << >>
  /\ parsedLine = None
  /\ parsed = None
  /\ PageInit
  /\ budget \in Budgets

\* A read in flight records the slot it was started for, its file, the
\* handler that awaits it and, to tell the order of choice, how many files the
\* run could still choose after it (0 for the file chosen last).
\* CsvUploader.handleFile up to its await.
UploaderHandleFile(s, file) ==
  /\ uploaderShown(datasetSlots[s])
  /\ budget.files > 0
  /\ budget' = [budget EXCEPT !.files = @ - 1]
  /\ IF rejectedFileType(file)
     THEN /\ datasetSlots' = handleUploadError(datasetSlots, s, InvalidFileType)
          /\ reads' = reads
     ELSE /\ Len(reads) < MaxInFlight
          /\ datasetSlots' =
               handleUploadError(handleSetSlotUploading(datasetSlots, s, TRUE), s, "")
          /\ reads' = Append(reads, [slot |-> s, file |-> file, via |-> "uploader",
                                  left |-> budget.files - 1])
  /\ tables' = renderTables(tables, datasetSlots', {s})
  /\ UNCHANGED parserVars

\* Home.handleNewFileSelected up to its await.
HandleNewFileSelected(s, file) ==
  /\ fileBarShown(datasetSlots[s])
  /\ budget.files > 0
  /\ budget' = [budget EXCEPT !.files = @ - 1]
  /\ IF rejectedFileType(file)
     THEN /\ datasetSlots' = handleUploadError(datasetSlots, s, InvalidFileType)
          /\ reads' = reads
          /\ tables' = renderTables(tables, datasetSlots', {s})
     ELSE /\ Len(reads) < MaxInFlight
          /\ datasetSlots' = handleSetSlotUploading(datasetSlots, s, TRUE)
          /\ reads' = Append(reads, [slot |-> s, file |-> file, via |-> "input",
                                  left |-> budget.files - 1])
          /\ tables' = renderTables(tables, datasetSlots', {})
  /\ UNCHANGED parserVars

\* What follows the await in handleFile and handleNewFileSelected.
afterRead(prevSlots, read, liveTable) ==
  LET s == read.slot
      result == parseCSV(read.file.text)
      settled ==
        IF read.file.readFails THEN handleUploadError(prevSlots, s, FailedToParse)
        ELSE IF Len(result.headers) = 0 THEN handleUploadError(prevSlots, s, NoHeadersFound)
        ELSE handleUploadSuccess(prevSlots, s, result.headers,
                                 newRows(result.data, pendingRefs(liveTable)),
                                 read.file.name)
  IN  IF read.via = "uploader" THEN handleSetSlotUploading(settled, s, FALSE)
      ELSE settled

ReadSettled(i) ==
  /\ i \in 1..Len(reads)
  /\ datasetSlots' = afterRead(datasetSlots, reads[i], tables[reads[i].slot])
  /\ reads' = removeAt(reads, i)
  /\ tables' = renderTables(tables, datasetSlots', {reads[i].slot})
  /\ UNCHANGED <<budget, parserVars>>

\* A search input that leaves the page where it is.
SetSearchTermKeepingPage(s, term) ==
  /\ IsSome(tables[s])
  /\ term # Get(tables[s]).searchTerm
  /\ tables' = [tables EXCEPT ![s] = Some([Get(tables[s]) EXCEPT !.searchTerm = term])]
  /\ UNCHANGED <<datasetSlots, reads, budget, parserVars>>

\* The search input's onChange.
SetSearchTerm(s, term) ==
  /\ IsSome(tables[s])
  /\ term # Get(tables[s]).searchTerm
  /\ tables' = [tables EXCEPT ![s] =
                  Some([Get(tables[s]) EXCEPT !.searchTerm = term, !.currentPage = 1])]
  /\ UNCHANGED <<datasetSlots, reads, budget, parserVars>>

\* A click on a column head that leaves the page where it is.
RequestSortKeepingPage(s) ==
  /\ IsSome(tables[s])
  /\ \E i \in 1..Len(Get(tables[s]).headers) :
       tables' = [tables EXCEPT ![s] =
                    Some([requestSort(Get(tables[s]), Get(tables[s]).headers[i])
                            EXCEPT !.currentPage = Get(tables[s]).currentPage])]
  /\ UNCHANGED <<datasetSlots, reads, budget, parserVars>>

\* A click on a column head: one is rendered for every header.
RequestSort(s) ==
  /\ IsSome(tables[s])
  /\ \E i \in 1..Len(Get(tables[s]).headers) :
       tables' = [tables EXCEPT ![s] =
                    Some(requestSort(Get(tables[s]), Get(tables[s]).headers[i]))]
  /\ UNCHANGED <<datasetSlots, reads, budget, parserVars>>

\* The Previous button: rendered when totalPages > 1, disabled on page 1.
PreviousPage(s) ==
  /\ IsSome(tables[s])
  /\ totalPages(Get(tables[s])) > 1
  /\ Get(tables[s]).currentPage # 1
  /\ tables' = [tables EXCEPT ![s] =
                  Some([Get(tables[s]) EXCEPT
                          !.currentPage = Max(1, Get(tables[s]).currentPage - 1)])]
  /\ UNCHANGED <<datasetSlots, reads, budget, parserVars>>

\* The Next button: rendered when totalPages > 1, disabled on the last page.
NextPage(s) ==
  /\ IsSome(tables[s])
  /\ totalPages(Get(tables[s])) > 1
  /\ Get(tables[s]).currentPage # totalPages(Get(tables[s]))
  /\ tables' = [tables EXCEPT ![s] =
                  Some([Get(tables[s]) EXCEPT
                          !.currentPage = Min(totalPages(Get(tables[s])),
                                              Get(tables[s]).currentPage + 1)])]
  /\ UNCHANGED <<datasetSlots, reads, budget, parserVars>>

\* The Edit button of displayed row k.
HandleEdit(s, k) ==
  /\ IsSome(tables[s])
  /\ budget.saves > 0
  /\ k \in 0..(Len(paginatedData(Get(tables[s]))) - 1)
  /\ tables' = [tables EXCEPT ![s] = Some(handleEdit(Get(tables[s]), k))]
  /\ UNCHANGED <<datasetSlots, reads, budget, parserVars>>

\* The rows the edit dialog can hand to onSave: formData starts as a copy of
\* rowData and handleChange sets the value of one of the table's headers.
editedVals(vals, headers) ==
  LET changes == UNION {[C -> EditValues] :
                          C \in {D \in SUBSET {headers[i] : i \in 1..Len(headers)} :
                                  Cardinality(D) <= MaxChanged}}
  IN  {[h \in DOMAIN vals \cup DOMAIN g |-> IF h \in DOMAIN g THEN g[h] ELSE vals[h]] :
         g \in changes}

\* handleSaveEdit, the page's handleRowUpdate and the effect that follows.
HandleSaveEdit(s) ==
  /\ IsSome(tables[s])
  /\ IsSome(Get(tables[s]).editingRow)
  /\ budget.saves > 0
  /\ \E updatedVals \in editedVals(Get(Get(tables[s]).editingRow).data.vals,
                                   Get(tables[s]).headers) :
     LET t == Get(tables[s])
         updatedRow == [ref |-> freshRef(liveRefs(datasetSlots[s], tables[s])),
                        vals |-> updatedVals]
     IN  /\ datasetSlots' =
               handleRowUpdate(datasetSlots, s, Get(t.editingRow).index, updatedRow)
         /\ tables' = renderTables([tables EXCEPT ![s] = Some([t EXCEPT !.editingRow = None])],
                                   datasetSlots', {s})
  /\ budget' = [budget EXCEPT !.saves = @ - 1]
  /\ UNCHANGED <<reads, parserVars>>

\* The edit dialog's onClose.
CloseEdit(s) ==
  /\ IsSome(tables[s])
  /\ IsSome(Get(tables[s]).editingRow)
  /\ tables' = [tables EXCEPT ![s] = Some([Get(tables[s]) EXCEPT !.editingRow = None])]
  /\ UNCHANGED <<datasetSlots, reads, budget, parserVars>>

\* The Delete button of displayed row k.
HandleDelete(s, k) ==
  /\ IsSome(tables[s])
  /\ budget.deletes > 0
  /\ k \in 0..(Len(paginatedData(Get(tables[s]))) - 1)
  /\ tables' = [tables EXCEPT ![s] = Some(handleDelete(Get(tables[s]), k))]
  /\ UNCHANGED <<datasetSlots, reads, budget, parserVars>>

\* confirmDelete, the page's handleRowDelete and the effect that follows.
ConfirmDelete(s) ==
  /\ IsSome(tables[s])
  /\ IsSome(Get(tables[s]).rowToDelete)
  /\ budget.deletes > 0
  /\ datasetSlots' = handleRowDelete(datasetSlots, s, Get(Get(tables[s]).rowToDelete))
  /\ tables' = renderTables([tables EXCEPT ![s] = Some(confirmDeleteLocal(Get(tables[s])))],
                            datasetSlots', {s})
  /\ budget' = [budget EXCEPT !.deletes = @ - 1]
  /\ UNCHANGED <<reads, parserVars>>

\* The alert dialog's Cancel.
CancelDelete(s) ==
  /\ IsSome(tables[s])
  /\ IsSome(Get(tables[s]).rowToDelete)
  /\ tables' = [tables EXCEPT ![s] = Some([Get(tables[s]) EXCEPT !.rowToDelete = None])]
  /\ UNCHANGED <<datasetSlots, reads, budget, parserVars>>

Next ==
  \/ \E s \in EngineSlots, f \in EngineFiles : UploaderHandleFile(s, f)
  \/ \E s \in EngineSlots, f \in EngineFiles : HandleNewFileSelected(s, f)
  \/ \E i \in 1..MaxInFlight : ReadSettled(i)
  \/ \E s \in EngineSlots, term \in SearchTerms : SetSearchTerm(s, term)
  \/ \E s \in EngineSlots : RequestSort(s)
  \/ \E s \in EngineSlots : PreviousPage(s)
  \/ \E s \in EngineSlots : NextPage(s)
  \/ \E s \in EngineSlots, k \in 0..MaxViewPos : HandleEdit(s, k)
  \/ \E s \in EngineSlots : HandleSaveEdit(s)
  \/ \E s \in EngineSlots : CloseEdit(s)
  \/ \E s \in EngineSlots, k \in 0..MaxViewPos : HandleDelete(s, k)
  \/ \E s \in EngineSlots : ConfirmDelete(s)
  \/ \E s \in EngineSlots : CancelDelete(s)

Spec == Init /\ [][Next]_vars

-----------------------------------------------------------------------------
(* The page with both of its slots in use: the handlers that change the    *)
(* page's state (loads, saved edits, confirmed deletes) and the dialogs     *)
(* that lead to them, addressed to either slot. The search, sort and page   *)
(* handlers change nothing but the table's own view state (C13) and are     *)
(* left to Spec.                                                            *)

SlotFiles == {SmallFile, NotCsvFile, UnreadableFile}
MaxSlotFiles == 3   \* files chosen in a run on both slots

SlotsInit ==
  /\ csvText = << >>
  /\ parsedLine = None
  /\ parsed = None
  /\ PageInit
  /\ budget = [files |-> MaxSlotFiles, saves |-> MaxSaves, deletes |-> MaxDeletes]

SlotsNext ==
  \/ \E s \in SlotIds, f \in SlotFiles : UploaderHandleFile(s, f)
  \/ \E s \in SlotIds, f \in SlotFiles : HandleNewFileSelected(s, f)
  \/ \E i \in 1..MaxInFlight : ReadSettled(i)
  \/ \E s \in SlotIds, k \in 0..MaxViewPos : HandleEdit(s, k)
  \/ \E s \in SlotIds : HandleSaveEdit(s)
  \/ \E s \in SlotIds : CloseEdit(s)
  \/ \E s \in SlotIds, k \in 0..MaxViewPos : HandleDelete(s, k)
  \/ \E s \in SlotIds : ConfirmDelete(s)
  \/ \E s \in SlotIds : CancelDelete(s)

SpecSlots == SlotsInit /\ [][SlotsNext]_vars

-----------------------------------------------------------------------------
(* The parser specification: the tokenizer and the parser applied to a text. *)

ParseInit ==
  /\ csvText \in LineInputs \cup HeaderLineInputs \cup DocumentInputs \cup SerializedInputs
  /\ parsedLine = None
  /\ parsed = None
  /\ PageInit
  /\ budget = [files |-> 0, saves |-> 0, deletes |-> 0]

ParseLine ==
  /\ ~IsSome(parsedLine)
  /\ parsedLine' = Some(parseCSVLine(csvText))
  /\ UNCHANGED <<csvText, parsed, pageVars>>

Parse ==
  /\ ~IsSome(parsed)
  /\ parsed' = Some(parseCSV(csvText))
  /\ UNCHANGED <<csvText, parsedLine, pageVars>>

ParseNext == ParseLine \/ Parse

SpecParse == ParseInit /\ [][ParseNext]_vars

-----------------------------------------------------------------------------
(* Claims about the parser, checked under SpecParse.                       *)

\* The set of the entries of a sequence.
Range(seq) == {seq[i] : i \in 1..Len(seq)}

NoDuplicates(seq) == \A i, j \in 1..Len(seq) : seq[i] = seq[j] => i = j

\* C1: the header sequence returned by parseCSV holds no empty string and no
\* two equal strings, whatever the raw header line contains.
C1_HeadersUniqueNonEmpty ==
  IsSome(parsed) =>
    /\ \A i \in 1..Len(Get(parsed).headers) : Get(parsed).headers[i] # << >>
    /\ NoDuplicates(Get(parsed).headers)

\* The renaming C2 describes: a candidate is tried against the headers already
\* finalized, n counting up from 1.
RECURSIVE claimedCandidate(_, _, _)
claimedCandidate(h, finalized, n) ==
  LET candidate == IF h = << >> THEN UnnamedColumn \o numberToString(n)
                   ELSE h \o <<"_">> \o numberToString(n)
  IN  IF includes(finalized, candidate) THEN claimedCandidate(h, finalized, n + 1)
      ELSE candidate

RECURSIVE claimedRename(_, _, _)
claimedRename(raw, i, finalized) ==
  IF i > Len(raw) THEN finalized
  ELSE claimedRename(raw, i + 1,
         Append(finalized,
                IF raw[i] # << >> /\ ~includes(SubSeq(raw, 1, i - 1), raw[i])
                THEN raw[i]
                ELSE claimedCandidate(raw[i], finalized, 1)))

\* The raw header names of a one-record document made of plain names.
RECURSIVE plainFields(_, _, _)
plainFields(text, i, current) ==
  IF i > Len(text) THEN <<current>>
  ELSE IF text[i] = COMMA THEN <<current>> \o plainFields(text, i + 1, << >>)
  ELSE plainFields(text, i + 1, Append(current, text[i]))

IsPlainHeaderLine(text) == \A i \in 1..Len(text) : text[i] \notin {DQ, SP, LF, CR, "\t"}

\* C2: headers are renamed left to right: a first occurrence is kept, a later
\* occurrence of h becomes h_n for the first n from 1 that collides with no
\* earlier finalized header, an empty name becomes UnnamedColumn<n>; so
\* Name,Name,,Name yields [Name, Name_1, UnnamedColumn1, Name_2].
C2_RenameLeftToRight ==
  (IsSome(parsed) /\ IsPlainHeaderLine(csvText)) =>
    /\ Get(parsed).headers = claimedRename(plainFields(csvText, 1, << >>), 1, << >>)
    /\ csvText = join(<<Name, Name, << >>, Name>>, <<COMMA>>) =>
         Get(parsed).headers = <<Name, Name \o <<"_", "1">>,
                                 UnnamedColumn \o <<"1">>, Name \o <<"_", "2">> >>

\* The quoted form of a field content: wrapped in one pair of quotes, every
\* interior quote doubled.
RECURSIVE doubleQuotes(_)
doubleQuotes(s) ==
  IF s = << >> THEN << >>
  ELSE (IF Head(s) = DQ THEN <<DQ, DQ>> ELSE <<Head(s)>>) \o doubleQuotes(Tail(s))

quotedForm(s) == <<DQ>> \o doubleQuotes(s) \o <<DQ>>

\* C3: parseCSVLine applied to the quoted form of s returns exactly s, and
\* parseLine('" a ", b') = [" a ", "b"].
C3_QuotedFieldVerbatim ==
  IsSome(parsedLine) =>
    /\ \A s \in StringsUpTo(LineAlphabet, MaxLineLen - 2) :
         csvText = quotedForm(s) => Get(parsedLine) = <<s>>
    /\ csvText = <<DQ, SP, "a", SP, DQ, COMMA, SP, "b">> =>
         Get(parsedLine) = << <<SP, "a", SP>>, <<"b">> >>

\* The commas of a line that lie outside quotes: those preceded by an even
\* number of quote characters.
QuotesBefore(line, i) == Cardinality({k \in 1..(i - 1) : line[k] = DQ})
Separators(line) ==
  {i \in 1..Len(line) : line[i] = COMMA /\ QuotesBefore(line, i) % 2 = 0}

\* The j-th piece of the line between consecutive separators.
Segment(line, j) ==
  LET seps == Separators(line)
      starts == {0} \cup seps
      from == CHOOSE a \in starts : Cardinality({b \in starts : b < a}) = j - 1
      later == {b \in seps : b > from}
      to == IF later = {} THEN Len(line) + 1
            ELSE CHOOSE b \in later : \A c \in later : b <= c
  IN  SubSeq(line, from + 1, to - 1)

\* The characters of a string that are neither quotes nor white space.
RECURSIVE Letters(_)
Letters(s) ==
  IF s = << >> THEN << >>
  ELSE (IF Head(s) \in WhiteSpace \cup {DQ} THEN << >> ELSE <<Head(s)>>)
         \o Letters(Tail(s))

\* C4: parseCSVLine splits a line exactly at the commas outside quotes: n such
\* commas give n+1 fields in left-to-right order (each field carries the
\* characters of its own piece, a quote-free piece trimmed), and the empty
\* line gives one empty field.
C4_SplitAtUnquotedCommas ==
  IsSome(parsedLine) =>
    LET fields == Get(parsedLine) IN
    /\ Len(fields) = Cardinality(Separators(csvText)) + 1
    /\ \A j \in 1..Len(fields) :
         /\ Letters(fields[j]) = Letters(Segment(csvText, j))
         /\ (\A k \in 1..Len(Segment(csvText, j)) : Segment(csvText, j)[k] # DQ)
              => fields[j] = trim(Segment(csvText, j))
    /\ csvText = << >> => fields = << << >> >>

\* A line with a comma inside quotes and a comma outside has been tokenized.
C4_Witness ==
  /\ IsSome(parsedLine)
  /\ \E i \in 1..Len(csvText) : csvText[i] = COMMA /\ i \notin Separators(csvText)
  /\ Separators(csvText) # {}
  /\ Len(Get(parsedLine)) = 2

\* From position i on, every quote of the line is half of a pair of adjacent
\* quotes.
RECURSIVE onlyQuotePairs(_, _)
onlyQuotePairs(line, i) ==
  IF i > Len(line) THEN TRUE
  ELSE IF line[i] # DQ THEN onlyQuotePairs(line, i + 1)
  ELSE IF i + 1 <= Len(line) /\ line[i + 1] = DQ THEN onlyQuotePairs(line, i + 2)
  ELSE FALSE

\* The quote at position q opens a quoted stretch that no later quote closes.
unclosedAt(line, q) ==
  /\ line[q] = DQ
  /\ QuotesBefore(line, q) % 2 = 0
  /\ onlyQuotePairs(line, q + 1)

\* C26: for a line with a quote that is never closed parseCSVLine returns its
\* fields all the same: only the unquoted commas before that quote end a
\* field, and everything from the last of them on (the commas after the quote
\* included) is the last field.
C26_UnclosedQuoteTolerated ==
  IsSome(parsedLine) =>
    \A q \in 1..Len(csvText) :
      unclosedAt(csvText, q) =>
        LET fields == Get(parsedLine)
            ends == {i \in 1..(q - 1) :
                       csvText[i] = COMMA /\ QuotesBefore(csvText, i) % 2 = 0}
            start == IF ends = {} THEN 0
                     ELSE CHOOSE i \in ends : \A j \in ends : j <= i
        IN  /\ Len(fields) = Cardinality(ends) + 1
            /\ Letters(fields[Len(fields)])
                 = Letters(SubSeq(csvText, start + 1, Len(csvText)))

\* A line with a comma before and a comma after its unclosed quote has been
\* tokenized.
C26_Witness ==
  /\ IsSome(parsedLine)
  /\ \E q \in 1..Len(csvText) :
       /\ unclosedAt(csvText, q)
       /\ \E i \in 1..(q - 1) : csvText[i] = COMMA
       /\ \E i \in (q + 1)..Len(csvText) : csvText[i] = COMMA
       /\ Len(Get(parsedLine)) = 2

\* C27: parseCSV returns one row per non-blank record after the header
\* record, in record order: the j-th row is the row of the j-th record whose
\* characters are not all white space, also when all fields of that record
\* are empty.
C27_OneRowPerNonBlankRecord ==
  IsSome(parsed) =>
    LET p == Get(parsed)
        records == Tail(splitLines(trim(csvText), 1, << >>, << >>))
        nonBlank == {i \in 1..Len(records) :
                       \E k \in 1..Len(records[i]) : records[i][k] \notin WhiteSpace}
        nth(j) == CHOOSE i \in nonBlank : Cardinality({k \in nonBlank : k < i}) = j - 1
    IN  /\ Len(p.data) = Cardinality(nonBlank)
        /\ \A j \in 1..Len(p.data) :
             p.data[j] = rowOf(p.headers, parseCSVLine(records[nth(j)]))

\* A document whose records are a blank one and one with empty fields only
\* has been parsed into one row.
C27_Witness ==
  /\ IsSome(parsed)
  /\ \E sep \in {<<LF>>, <<CR, LF>>}, h \in DocumentHeaderLines :
       csvText = join(<<h, <<SP>>, <<COMMA>> >>, sep)
  /\ Len(Get(parsed).data) = 1

\* The text with every CRLF turned into LF.
RECURSIVE lfForm(_)
lfForm(text) ==
  IF text = << >> THEN << >>
  ELSE IF Len(text) >= 2 /\ text[1] = CR /\ text[2] = LF
       THEN <<LF>> \o lfForm(SubSeq(text, 3, Len(text)))
  ELSE <<Head(text)>> \o lfForm(Tail(text))

\* C28: a document whose records are separated by CRLF, or by CRLF and LF
\* mixed, parses to the headers and rows of the same document with LF
\* separators, and (its records holding no carriage return of their own) no
\* header and no field value holds a carriage return.
C28_LineEndingsAgree ==
  (IsSome(parsed) /\ \A i \in 1..Len(lfForm(csvText)) : lfForm(csvText)[i] # CR) =>
    LET p == Get(parsed) IN
    /\ p = parseCSV(lfForm(csvText))
    /\ \A i \in 1..Len(p.headers) : CR \notin Range(p.headers[i])
    /\ \A j \in 1..Len(p.data) : \A h \in DOMAIN p.data[j] :
         CR \notin Range(p.data[j][h]) /\ CR \notin Range(h)

\* A document with a CRLF after its header and an LF between its two records
\* has been parsed into two rows.
C28_Witness ==
  /\ IsSome(parsed)
  /\ \E h \in DocumentHeaderLines, r1, r2 \in DocumentRecordLines :
       csvText = h \o <<CR, LF>> \o r1 \o <<LF>> \o r2
  /\ Len(Get(parsed).data) = 2

-----------------------------------------------------------------------------
(* Claims about the table and the page, checked under Spec.                *)

\* The rows of slot s as the page holds them, and its mounted table.
canonical(s) == datasetSlots[s].data
mounted(s) == Get(tables[s])

\* A value that parses fully as a number: here, a string of decimal digits.
IsNumeric(v) == v # << >> /\ \A i \in 1..Len(v) : includes(DigitChars, v[i])

RECURSIVE numericValue(_)
numericValue(v) ==
  IF v = << >> THEN 0
  ELSE 10 * numericValue(SubSeq(v, 1, Len(v) - 1)) + IndexIn(DigitChars, v[Len(v)]) - 1

\* The order C5 describes: a before b is allowed under an ascending sort.
claimedInOrder(a, b) ==
  IF IsNumeric(a) /\ IsNumeric(b) THEN numericValue(a) <= numericValue(b)
  ELSE ~lessThan(b, a)

\* C5: while a sort on a column is active, the rows the table shows are in the
\* order of that column's values, two values that are both numbers compared as
\* numbers and any other pair as strings (10, 2, 1 ascending is 1, 2, 10).
C5_NumericSort ==
  \A s \in EngineSlots :
    (IsSome(tables[s]) /\ IsSome(mounted(s).sortConfig)) =>
      LET rows == sortedData(mounted(s))
          key == Get(mounted(s).sortConfig).key
          ascending == Get(mounted(s).sortConfig).direction = "ascending"
      IN  \A i, j \in 1..Len(rows) :
            (i < j /\ key \in DOMAIN rows[i].vals /\ key \in DOMAIN rows[j].vals) =>
              IF ascending THEN claimedInOrder(rows[i].vals[key], rows[j].vals[key])
              ELSE claimedInOrder(rows[j].vals[key], rows[i].vals[key])

\* The canonical sequences before and after a step that replaces exactly the
\* row at 0-based index with a row holding one of the mappings in vals.
replacedOnlyAt(old, new, index, vals) ==
  /\ Len(new) = Len(old)
  /\ \A j \in 1..Len(old) : j # index + 1 => new[j] = old[j]
  /\ index + 1 \in 1..Len(old) => new[index + 1].vals \in vals

\* The row object displayed at view position k is the canonical row at index,
\* and at no other index.
resolvesTo(s, k, index) ==
  LET shown == paginatedData(mounted(s))[k + 1]
  IN  /\ index + 1 \in 1..Len(canonical(s))
      /\ \A j \in 1..Len(canonical(s)) : canonical(s)[j].ref = shown.ref <=> j = index + 1

\* C6: the Edit button of view position k opens the canonical row that is
\* displayed there (whatever the search term, sort and page, and whatever
\* values other rows hold), and saving replaces that canonical row by the new
\* value mapping: the length, every other row and every position stay.
C6_EditReplacesDisplayedRow ==
  [][\A s \in EngineSlots :
       /\ \A k \in 0..MaxViewPos :
            HandleEdit(s, k) =>
              /\ IsSome(mounted(s).editingRow')
              /\ Get(mounted(s).editingRow').data = paginatedData(mounted(s))[k + 1]
              /\ resolvesTo(s, k, Get(mounted(s).editingRow').index)
       /\ HandleSaveEdit(s) =>
            LET editing == Get(mounted(s).editingRow)
            IN  replacedOnlyAt(canonical(s), canonical(s)', editing.index,
                               editedVals(editing.data.vals, mounted(s).headers))
    ]_vars

\* An edit saved on the second of two rows that hold the same values, opened on
\* page 2 of the paged file: the eleventh canonical row is the new object, the
\* ten rows before it are the parsed ones.
C6_Witness ==
  /\ Len(canonical(0)) = ROWS_PER_PAGE + 1
  /\ \A j \in 1..ROWS_PER_PAGE : canonical(0)[j].ref = j
  /\ canonical(0)[ROWS_PER_PAGE + 1].ref # ROWS_PER_PAGE + 1
  /\ canonical(0)[ROWS_PER_PAGE + 1].vals[<<"n">>] = <<"2">>
  /\ canonical(0)[ROWS_PER_PAGE].vals[<<"n">>] = <<"8">>
  /\ budget.saves = 0

\* The canonical sequences before and after a step that removes exactly the
\* row at 0-based index: the rows before it stay, the rows after it move down
\* by one; an index that denotes no row removes nothing.
removedOnlyAt(old, new, index) ==
  IF index + 1 \in 1..Len(old)
  THEN /\ Len(new) = Len(old) - 1
       /\ \A j \in 1..index : new[j] = old[j]
       /\ \A j \in (index + 1)..Len(new) : new[j] = old[j + 1]
  ELSE new = old

\* C7: the Delete button of view position k selects the canonical row that is
\* displayed there (whatever the search term, sort and page, and whatever
\* values other rows hold), and confirming removes that canonical row: the
\* length drops by one, the rows before it stay and the rows after it move
\* down by one in their order.
C7_DeleteRemovesDisplayedRow ==
  [][\A s \in EngineSlots :
       /\ \A k \in 0..MaxViewPos :
            HandleDelete(s, k) =>
              /\ IsSome(mounted(s).rowToDelete')
              /\ resolvesTo(s, k, Get(mounted(s).rowToDelete'))
       /\ ConfirmDelete(s) =>
            removedOnlyAt(canonical(s), canonical(s)', Get(mounted(s).rowToDelete))
    ]_vars

\* A delete confirmed on the second of two rows that hold the same values,
\* selected on page 2 of the paged file: the ten rows before it are left.
C7_Witness ==
  /\ Len(canonical(0)) = ROWS_PER_PAGE
  /\ \A j \in 1..ROWS_PER_PAGE : canonical(0)[j].ref = j
  /\ canonical(0)[ROWS_PER_PAGE].vals[<<"n">>] = <<"8">>
  /\ budget.deletes = 0
  /\ IsSome(tables[0]) /\ mounted(0).data = canonical(0)

\* C8: once a delete is committed, the same delete repeated with the target
\* it was committed with removes no further row.
C8_RepeatedDeleteIsNoOp ==
  [][\A s \in EngineSlots :
       ConfirmDelete(s) =>
         handleRowDelete(datasetSlots', s, Get(mounted(s).rowToDelete)) = datasetSlots'
    ]_vars

\* C9: an edit that is saved replaces the row that was opened, and no other
\* row, also when another row of the dataset was deleted between the opening
\* and the saving (the opened row is then still in the canonical sequence).
C9_SavedEditReplacesOpenedRow ==
  [][\A s \in EngineSlots :
       HandleSaveEdit(s) =>
         LET editing == Get(mounted(s).editingRow)
         IN  \A j \in 1..Len(canonical(s)) :
               canonical(s)[j].ref = editing.data.ref =>
                 /\ canonical(s)'[j].ref # editing.data.ref
                 /\ replacedOnlyAt(canonical(s), canonical(s)', j - 1,
                                   editedVals(editing.data.vals, mounted(s).headers))
    ]_vars

\* The value mappings of a sequence of row objects.
valsOf(rows) == [j \in 1..Len(rows) |-> rows[j].vals]

\* C10: when a file has been read and parsed into a dataset with headers, the
\* slot's table has an empty search term, no sort and page 1, and holds and
\* shows the headers and rows of that dataset, whatever its state was before.
C10_LoadResetsView ==
  [][\A i \in 1..MaxInFlight :
       (/\ ReadSettled(i)
        /\ ~reads[i].file.readFails
        /\ Len(parseCSV(reads[i].file.text).headers) > 0) =>
         LET s == reads[i].slot
             result == parseCSV(reads[i].file.text)
             t == Get(tables'[s])
         IN  /\ IsSome(tables'[s])
             /\ t.searchTerm = << >>
             /\ t.sortConfig = None
             /\ t.currentPage = 1
             /\ t.headers = result.headers
             /\ valsOf(t.data) = result.data
             /\ valsOf(paginatedData(t)) = slice(result.data, 0, ROWS_PER_PAGE)
    ]_vars

\* The small file loaded into a table that was on page 2 of the paged file: the
\* edit opened there on the eleventh row is still open, the view is reset.
C10_Witness ==
  /\ IsSome(tables[0])
  /\ IsSome(mounted(0).editingRow)
  /\ Get(mounted(0).editingRow).index = ROWS_PER_PAGE
  /\ datasetSlots[0].fileName = Some(SmallFile.name)
  /\ valsOf(mounted(0).data) = parseCSV(SmallFile.text).data
  /\ mounted(0).currentPage = 1
  /\ mounted(0).sortConfig = None

\* C11: in every reachable state each row of a slot's dataset has exactly the
\* slot's headers as its keys: a value for every header and no other key.
C11_RowKeysAreHeaders ==
  \A s \in SlotIds :
    \A i \in 1..Len(canonical(s)) :
      DOMAIN canonical(s)[i].vals = Range(datasetSlots[s].headers)

\* The non-blank records of a document: the lines after the header line whose
\* trimmed text is not empty.
recordLines(text) ==
  SelectSeq(Tail(splitLines(trim(text), 1, << >>, << >>)),
            LAMBDA line : trim(line) # << >>)

\* C12: the j-th parsed row belongs to the j-th non-blank record and maps the
\* i-th returned header to the record's i-th tokenized field, or to the empty
\* string when the record has fewer fields; it has no other key.
C12_RowsArePositional ==
  IsSome(parsed) =>
    LET p == Get(parsed)
        records == recordLines(csvText)
    IN  /\ Len(p.data) = Len(records)
        /\ \A j \in 1..Len(p.data) :
             LET fields == parseCSVLine(records[j])
             IN  /\ DOMAIN p.data[j] = Range(p.headers)
                 /\ \A i \in 1..Len(p.headers) :
                      p.data[j][p.headers[i]] =
                        IF i <= Len(fields) THEN fields[i] ELSE << >>

-----------------------------------------------------------------------------
(* Claims about the derived view, checked under Spec.                      *)

\* C13: a change of the search term, a sort request and a move between pages
\* leave the canonical rows (the slot's and the table's copy: the rows, their
\* values and their order) and the headers as they were.
C13_ViewChangesKeepRows ==
  [][\A s \in EngineSlots :
       ( \/ \E term \in SearchTerms : SetSearchTerm(s, term)
         \/ RequestSort(s)
         \/ PreviousPage(s)
         \/ NextPage(s) )
       => /\ canonical(s)' = canonical(s)
          /\ datasetSlots[s].headers' = datasetSlots[s].headers
          /\ IsSome(tables[s]')
          /\ mounted(s).data' = mounted(s).data
          /\ mounted(s).headers' = mounted(s).headers]_vars

\* A table whose view is searched and sorted into another order than the
\* canonical one, over unchanged canonical rows.
C13_Witness ==
  \E s \in EngineSlots :
    /\ IsSome(tables[s])
    /\ mounted(s).searchTerm # << >>
    /\ IsSome(mounted(s).sortConfig)
    /\ filteredData(mounted(s)) # mounted(s).data
    /\ sortedData(mounted(s)) # filteredData(mounted(s))
    /\ mounted(s).data = canonical(s)

\* term occurs in value at some offset, letters compared without their case.
containsIgnoringCase(value, term) ==
  \E offset \in 0..(Len(value) - Len(term)) :
    \A i \in 1..Len(term) : LowerOf[value[offset + i]] = LowerOf[term[i]]

\* C14: the filtered view is the canonical rows that have a field value
\* containing the search term as a case-insensitive substring, in canonical
\* order; its count is at most the total count and, with the empty term,
\* equals it.
C14_FilteredViewIsTheMatches ==
  \A s \in EngineSlots :
    IsSome(tables[s]) =>
      LET t == mounted(s)
          matches(row) ==
            \E h \in DOMAIN row.vals : containsIgnoringCase(row.vals[h], t.searchTerm)
      IN  /\ t.data = canonical(s)
          /\ filteredData(t) = SelectSeq(canonical(s), matches)
          /\ Len(filteredData(t)) <= Len(canonical(s))
          /\ t.searchTerm = << >> => Len(filteredData(t)) = Len(canonical(s))

\* A search that keeps some rows and drops others, one of the kept rows
\* matching only through a letter of the other case.
C14_Witness ==
  \E s \in EngineSlots :
    /\ IsSome(tables[s])
    /\ mounted(s).searchTerm # << >>
    /\ Len(filteredData(mounted(s))) < Len(canonical(s))
    /\ \E i \in 1..Len(filteredData(mounted(s))) :
         ~rowMatchesCaseSensitive(filteredData(mounted(s))[i], mounted(s).searchTerm)

Reverse(seq) == [i \in 1..Len(seq) |-> seq[Len(seq) + 1 - i]]

\* No two rows of the sequence compare as equal on the column.
noTies(rows, key) ==
  \A i, j \in 1..Len(rows) :
    i # j => compareRows(rows[i], rows[j], [key |-> key, direction |-> "ascending"]) # 0

\* C15: when the sort is requested on the column the view is already sorted
\* ascending on, and no two rows of the view compare as equal on that column,
\* the descending view is the exact reverse of the ascending view.
C15_DescendingIsReverse ==
  [][\A s \in EngineSlots :
       ( /\ RequestSort(s)
         /\ IsSome(mounted(s).sortConfig)
         /\ Get(mounted(s).sortConfig).direction = "ascending"
         /\ mounted(s).sortConfig' =
              Some([key |-> Get(mounted(s).sortConfig).key, direction |-> "descending"])
         /\ noTies(filteredData(mounted(s)), Get(mounted(s).sortConfig).key) )
       => sortedData(mounted(s))' = Reverse(sortedData(mounted(s)))]_vars

\* A view of several rows, none comparing equal on the column, sorted
\* descending on it.
C15_Witness ==
  \E s \in EngineSlots :
    /\ IsSome(tables[s])
    /\ IsSome(mounted(s).sortConfig)
    /\ Get(mounted(s).sortConfig).direction = "descending"
    /\ Len(sortedData(mounted(s))) >= 3
    /\ noTies(filteredData(mounted(s)), Get(mounted(s).sortConfig).key)

\* Math.ceil(count / ROWS_PER_PAGE), stated by its bounds.
isCeilOfPages(pages, count) ==
  /\ pages * ROWS_PER_PAGE >= count
  /\ (pages - 1) * ROWS_PER_PAGE < count

\* C16: in every reachable state of a table, 1 <= currentPage <=
\* max(1, totalPages) with totalPages the ceiling of the view's row count over
\* ROWS_PER_PAGE, and a view that has rows shows at least one of them.
C16_PageInRange ==
  \A s \in EngineSlots :
    IsSome(tables[s]) =>
      LET t == mounted(s) IN
      /\ totalPages(t) \in Nat
      /\ isCeilOfPages(totalPages(t), Len(sortedData(t)))
      /\ 1 <= t.currentPage
      /\ t.currentPage <= Max(1, totalPages(t))
      /\ Len(sortedData(t)) > 0 => Len(paginatedData(t)) > 0

\* The last page shows its only row and the delete of that row awaits its
\* confirmation.
C16_Witness ==
  \E s \in EngineSlots :
    /\ IsSome(tables[s])
    /\ mounted(s).currentPage > 1
    /\ mounted(s).currentPage = totalPages(mounted(s))
    /\ Len(paginatedData(mounted(s))) = 1
    /\ budget.deletes > 0
    /\ mounted(s).rowToDelete = Some(indexOf(mounted(s).data, paginatedData(mounted(s))[1]))

-----------------------------------------------------------------------------
(* Claims about loading, checked under Spec.                               *)

\* C17: when the read of a document with no records (empty or whitespace-only
\* text) settles, parseCSV returns no headers and no rows, the slot records
\* the empty-or-headerless error and no table is loaded.
C17_BlankDocumentIsRejected ==
  [][\A i \in 1..MaxInFlight :
       ( /\ ReadSettled(i)
         /\ ~reads[i].file.readFails
         /\ trim(reads[i].file.text) = << >> )
       => /\ parseCSV(reads[i].file.text) = [headers |-> << >>, data |-> << >>]
          /\ datasetSlots'[reads[i].slot].uploadError = NoHeadersFound
          /\ tables'[reads[i].slot] = None]_vars

\* The slot holds after the step the headers and rows it held before it.
slotKept(s) ==
  /\ datasetSlots'[s].headers = datasetSlots[s].headers
  /\ datasetSlots'[s].data = datasetSlots[s].data

\* C18: a failed file load (wrong file type, zero headers, or a failure to
\* read the file) records an error message and leaves the slot's dataset as it
\* was before the attempt: the same headers and rows, or none.
C18_FailedLoadKeepsSlot ==
  [][/\ \A s \in EngineSlots, file \in EngineFiles :
          ( /\ rejectedFileType(file)
            /\ UploaderHandleFile(s, file) \/ HandleNewFileSelected(s, file) )
          => /\ datasetSlots[s].uploadError' = InvalidFileType
             /\ slotKept(s)
      /\ \A i \in 1..MaxInFlight :
          ( /\ ReadSettled(i)
            /\ reads[i].via = "input"
            /\ \/ reads[i].file.readFails
               \/ Len(parseCSV(reads[i].file.text).headers) = 0 )
          => /\ datasetSlots'[reads[i].slot].uploadError \in {FailedToParse, NoHeadersFound}
             /\ slotKept(reads[i].slot)]_vars

-----------------------------------------------------------------------------
(* The round trip through a serialization, checked under SpecParse.        *)

\* The strings of a dataset: its headers and its field values.
stringsOf(dataset) ==
  Range(dataset.headers)
    \cup UNION {{dataset.data[j][h] : h \in DOMAIN dataset.data[j]} :
                 j \in 1..Len(dataset.data)}

\* Headers unique and non-empty, no comma and no quote in a header or a value.
plainDataset(dataset) ==
  /\ NoDuplicates(dataset.headers)
  /\ \A i \in 1..Len(dataset.headers) : dataset.headers[i] # << >>
  /\ \A str \in stringsOf(dataset) : \A i \in 1..Len(str) : str[i] \notin {COMMA, DQ}

\* C19 as stated: parseCSV of the serialization of a dataset with unique
\* non-empty headers (at least one) and no comma or quote in its strings
\* returns the dataset's headers and rows.
C19_RoundTrip ==
  \A dataset \in Datasets :
    ( /\ IsSome(parsed) /\ csvText = serialize(dataset)
      /\ plainDataset(dataset) /\ Len(dataset.headers) >= 1 )
      => Get(parsed) = dataset

\* What the round trip needs besides: at least one header, no string with a
\* line break or with whitespace at either end, and no row whose line is
\* blank (the only row line without a comma is that of a one-column dataset).
trimmedDataset(dataset) ==
  /\ Len(dataset.headers) >= 1
  /\ \A str \in stringsOf(dataset) :
       /\ trim(str) = str
       /\ \A i \in 1..Len(str) : str[i] \notin {LF, CR}
  /\ Len(dataset.headers) = 1 =>
       \A j \in 1..Len(dataset.data) : dataset.data[j][dataset.headers[1]] # << >>

\* C19 amended: the round trip holds for the datasets that are plain and
\* trimmed in the above sense.
C19_RoundTripOfTrimmed ==
  \A dataset \in Datasets :
    ( /\ IsSome(parsed) /\ csvText = serialize(dataset)
      /\ plainDataset(dataset) /\ trimmedDataset(dataset) )
      => Get(parsed) = dataset

\* The serialization of a two-column dataset with two rows, one of them with
\* an empty value, has been parsed.
C19_Witness ==
  \E dataset \in Datasets :
    /\ IsSome(parsed) /\ csvText = serialize(dataset)
    /\ plainDataset(dataset) /\ trimmedDataset(dataset)
    /\ Len(dataset.headers) = 2 /\ Len(dataset.data) = 2
    /\ dataset.data[1] # dataset.data[2]
    /\ \E h \in DOMAIN dataset.data[1] : dataset.data[1][h] = << >>
    /\ \E h \in DOMAIN dataset.data[1] : dataset.data[1][h] # << >>

-----------------------------------------------------------------------------
(* The loading indicator, checked under Spec.                              *)

\* C20: while a file accepted for reading has not been parsed yet (its read is
\* in flight), the loading indicator of the slot it is loaded into is true.
C20_LoadingWhileReading ==
  \A i \in 1..Len(reads) : datasetSlots[reads[i].slot].isUploading

-----------------------------------------------------------------------------
(* Claims about the view state, checked under Spec.                        *)

\* C21: every change of the search term and every sort request leaves the
\* table on page 1, whatever page was shown before.
C21_SearchAndSortResetPage ==
  [][\A s \in EngineSlots :
       ( \/ \E term \in SearchTerms : SetSearchTerm(s, term)
         \/ RequestSort(s) )
       => /\ IsSome(tables[s]')
          /\ mounted(s).currentPage' = 1]_vars

\* A sorted table showing its second page: the sort put it on page 1, Next
\* moved it on, and the next search or sort starts from page 2.
C21_Witness ==
  \E s \in EngineSlots :
    /\ IsSome(tables[s])
    /\ IsSome(mounted(s).sortConfig)
    /\ mounted(s).currentPage = 2

\* C22: a committed edit or delete leaves the table's search term and sort
\* spec as they were before it.
C22_CommitKeepsView ==
  [][\A s \in EngineSlots :
       (HandleSaveEdit(s) \/ ConfirmDelete(s))
       => /\ IsSome(tables[s]')
          /\ mounted(s).searchTerm' = mounted(s).searchTerm
          /\ mounted(s).sortConfig' = mounted(s).sortConfig]_vars

-----------------------------------------------------------------------------
(* Overlapping reads, checked under Spec.                                  *)

\* The last read in flight is not of the file chosen last: every file chosen
\* after it has completed, and the slot holds the dataset one of them loaded.
staleReadPending(s) ==
  /\ Len(reads) = 1
  /\ reads[1].slot = s
  /\ reads[1].left > 0
  /\ budget.files = 0
  /\ IsSome(datasetSlots[s].fileName)

\* C23: when the reads of two files chosen for one slot overlap and the read
\* of the file chosen first completes last, the slot still holds the headers,
\* rows and file name of the file chosen last.
C23_LastChosenFileWins ==
  [][\A s \in EngineSlots :
       (staleReadPending(s) /\ ReadSettled(1))
       => /\ datasetSlots[s].fileName' = datasetSlots[s].fileName
          /\ slotKept(s)]_vars

-----------------------------------------------------------------------------
(* Resolving view positions, checked under Spec.                           *)

\* C24: every row of the displayed page is a row (the same object) of the
\* canonical sequence, so indexOf resolves every displayed position: it is
\* never -1 and the row at the index it yields is the displayed row.
C24_DisplayedRowsAreCanonical ==
  \A s \in EngineSlots :
    IsSome(tables[s]) =>
      LET t == mounted(s) IN
      \A k \in 1..Len(paginatedData(t)) :
        LET index == indexOf(t.data, paginatedData(t)[k]) IN
        /\ index # -1
        /\ index \in 0..(Len(canonical(s)) - 1)
        /\ canonical(s)[index + 1] = paginatedData(t)[k]
        /\ handleEdit(t, k - 1).editingRow = Some([index |-> index, data |-> paginatedData(t)[k]])
        /\ handleDelete(t, k - 1).rowToDelete = Some(index)

\* A searched and sorted view whose first displayed row is not the first
\* canonical row, opened for editing.
C24_Witness ==
  \E s \in EngineSlots :
    /\ IsSome(tables[s])
    /\ mounted(s).searchTerm # << >>
    /\ IsSome(mounted(s).sortConfig)
    /\ Len(paginatedData(mounted(s))) >= 2
    /\ IsSome(mounted(s).editingRow)
    /\ Get(mounted(s).editingRow).data = paginatedData(mounted(s))[1]
    /\ Get(mounted(s).editingRow).index # 0

\* The rows of every slot are after the step what they were before it.
allRowsKept == \A id \in SlotIds : datasetSlots[id].data' = datasetSlots[id].data

\* A 0-based index that denotes no row of the slot's dataset.
outOfRange(s, index) == index \notin 0..(Len(canonical(s)) - 1)

\* C25: a save or a confirmed delete whose stored index is outside
\* 0..length-1 leaves the rows of every dataset unchanged, and an Edit or
\* Delete button whose row is not found in the canonical rows sets no pending
\* target.
C25_UnresolvedTargetIsNoOp ==
  [][\A s \in EngineSlots :
       /\ ( /\ HandleSaveEdit(s)
            /\ outOfRange(s, Get(mounted(s).editingRow).index) ) => allRowsKept
       /\ ( /\ ConfirmDelete(s)
            /\ outOfRange(s, Get(mounted(s).rowToDelete)) ) => allRowsKept
       /\ \A k \in 0..MaxViewPos :
            ( /\ HandleEdit(s, k) \/ HandleDelete(s, k)
              /\ indexOf(mounted(s).data, paginatedData(mounted(s))[k + 1]) = -1 )
            => /\ mounted(s).editingRow' = mounted(s).editingRow
               /\ mounted(s).rowToDelete' = mounted(s).rowToDelete]_vars

\* An edit dialog whose stored index denotes no row any more, with a save
\* still to come.
C25_Witness ==
  \E s \in EngineSlots :
    /\ IsSome(tables[s])
    /\ IsSome(mounted(s).editingRow)
    /\ Len(canonical(s)) > 0
    /\ outOfRange(s, Get(mounted(s).editingRow).index)
    /\ budget.saves > 0

-----------------------------------------------------------------------------
(* The two slots, checked under SpecSlots.                                 *)

\* The step is a handler addressed to slot s: a file chosen for it, one of its
\* reads settling, or an edit or delete (or its dialog) of its table.
addressedTo(s) ==
  \/ \E f \in SlotFiles : UploaderHandleFile(s, f) \/ HandleNewFileSelected(s, f)
  \/ \E i \in 1..MaxInFlight : ReadSettled(i) /\ reads[i].slot = s
  \/ \E k \in 0..MaxViewPos : HandleEdit(s, k) \/ HandleDelete(s, k)
  \/ HandleSaveEdit(s) \/ ConfirmDelete(s)
  \/ CloseEdit(s) \/ CancelDelete(s)

\* C29: a handler addressed to one slot leaves the other slot's headers, rows,
\* file name, error and loading flag, and its table, unchanged, however the
\* operations on the two slots interleave.
C29_SlotsAreIsolated ==
  [][\A s \in SlotIds : \A other \in SlotIds \ {s} :
       addressedTo(s) => /\ datasetSlots[other]' = datasetSlots[other]
                         /\ tables[other]' = tables[other]]_vars

\* Both slots hold a dataset; a delete was confirmed in slot 0 and an edit
\* saved in slot 1.
C29_Witness ==
  /\ IsSome(datasetSlots[0].fileName) /\ IsSome(datasetSlots[1].fileName)
  /\ Len(canonical(0)) = 2
  /\ Len(canonical(1)) = 3
  /\ \E j \in 1..3 : canonical(1)[j].ref > 3
  /\ budget.saves = 0 /\ budget.deletes = 0

-----------------------------------------------------------------------------
(* The end of the processing state, checked under Spec.                    *)

\* C30: a loading flag that is set is eventually cleared. In finite-run form:
\* a slot is in the processing state only while one of its reads is in
\* flight, and when a read completes (with a dataset, with zero headers or
\* with a failure) the flag of its slot is false; so the flag is false once
\* the reads have completed.
C30_LoadingFlagIsCleared ==
  /\ [](\A s \in SlotIds :
          datasetSlots[s].isUploading => \E i \in 1..Len(reads) : reads[i].slot = s)
  /\ [][\A i \in 1..MaxInFlight :
          ReadSettled(i) => ~datasetSlots'[reads[i].slot].isUploading]_vars

\* A slot in the processing state while the file chosen with Upload New File
\* is read.
C30_Witness ==
  \E s \in EngineSlots :
    /\ datasetSlots[s].isUploading
    /\ \E i \in 1..Len(reads) : reads[i].slot = s /\ reads[i].via = "input"

\* C31: parseCSV returns a result for every input text, and the renaming loop
\* ends for every header: for the header at position index the loop body runs
\* at most index times, and the returned name is the raw name when it never
\* runs and the form generated by its last iteration otherwise.
C31_RenamingLoopTerminates ==
  IsSome(parsed) =>
    LET headers == trimmedHeaders(csvText) IN
    /\ Len(Get(parsed).headers) = Len(headers)
    /\ Len(Get(parsed).data) \in Nat
    /\ \A index \in 1..Len(headers) :
         LET n == renameIterations(headers[index], SubSeq(headers, 1, index - 1),
                                   headers[index], 1)
         IN  /\ n <= index
             /\ Get(parsed).headers[index] =
                  IF n = 0 THEN headers[index]
                  ELSE IF headers[index] = << >>
                       THEN UnnamedColumn \o numberToString(n)
                       ELSE headers[index] \o <<"_">> \o numberToString(n)

\* Name,Name_1,Name has been parsed: the loop ran twice for the third name.
C31_Witness ==
  /\ IsSome(parsed)
  /\ csvText = join(<<Name, Name \o <<"_", "1">>, Name>>, <<COMMA>>)
  /\ renameIterations(Name, <<Name, Name \o <<"_", "1">> >>, Name, 1) = 2
  /\ Get(parsed).headers[3] = Name \o <<"_", "2">>

====
